---- MODULE Spec2Model ----
(***************************************************************************)
(* A model of ttrss-tool: the ttrss session client (src/src/ttrss/ttrss.go) *)
(* and the command-line tool built on it (src/ttrss-tool.go).               *)
(*                                                                          *)
(* Go strings that the code inspects character by character (URLs, paths,   *)
(* node names) are sequences of one-character strings; strings the code     *)
(* only stores, compares with "" or prints are TLA+ strings.                *)
(***************************************************************************)
EXTENDS Integers, Sequences, FiniteSets, TLC

VARIABLES
    tt,     \* the ttrss.Client: [ApiEP, SessionID]
    res,    \* the operation called last: its inputs, the server's replies, what it returned
    pc,     \* position of the command-line tool's main()
    proc,   \* the tool's process: its command line, dotfile and stdin, its flag variables, its exit
    hist    \* the operations main() has completed so far, each with the requests it sent

vars == <<tt, res, pc, proc, hist>>

----------------------------------------------------------------------------
(* Strings as character sequences.                                          *)

HasPrefix(s, p) == Len(s) >= Len(p) /\ SubSeq(s, 1, Len(p)) = p

HasSuffix(s, p) == Len(s) >= Len(p) /\ SubSeq(s, Len(s) - Len(p) + 1, Len(s)) = p

HTTP == <<"h", "t", "t", "p">>

HTTPS == <<"h", "t", "t", "p", "s">>

SLASH == <<"/">>

COLON == <<":">>

\* strings.ToLower on the letters a URL scheme is written with here.
UpperToLower == [H |-> "h", T |-> "t", P |-> "p", S |-> "s"]

ToLower(s) ==
    [i \in 1 .. Len(s) |-> IF s[i] \in DOMAIN UpperToLower THEN UpperToLower[s[i]] ELSE s[i]]

\* The characters net/url accepts in a scheme: letters (digits, "+", "-" and
\* "." too, which no URL here holds).
SchemeChars ==
    {"a", "f", "h", "i", "p", "s", "t", "x"} \cup DOMAIN UpperToLower

\* Position of the first c in s, 0 when s holds none.
IndexOf(s, c) ==
    IF \E i \in 1 .. Len(s) : s[i] = c
    THEN CHOOSE i \in 1 .. Len(s) : s[i] = c /\ \A j \in 1 .. i - 1 : s[j] # c
    ELSE 0

\* url.Parse: the scheme is what stands before the first ":" (at i) when
\* that is scheme characters only, lower-cased; none otherwise.
SchemeBefore(url, i) ==
    IF i > 1 /\ \A j \in 1 .. i - 1 : url[j] \in SchemeChars
    THEN ToLower(SubSeq(url, 1, i - 1))
    ELSE <<>>

UrlScheme(url) == SchemeBefore(url, IndexOf(url, ":"))

\* The authority auth ends at its first "/" (at k), if it has one.
HostOf(auth, k) == IF k = 0 THEN auth ELSE SubSeq(auth, 1, k - 1)

\* What follows the scheme's ":" names a host only behind "//".
HostAfter(rest) ==
    IF ~HasPrefix(rest, SLASH \o SLASH) THEN <<>>
    ELSE HostOf(SubSeq(rest, 3, Len(rest)), IndexOf(SubSeq(rest, 3, Len(rest)), "/"))

\* url.Parse: the host is what follows "scheme://" up to the next "/".
UrlHost(url) ==
    IF UrlScheme(url) = <<>> THEN <<>>
    ELSE HostAfter(SubSeq(url, IndexOf(url, ":") + 1, Len(url)))

API_PATH == <<"a", "p", "i", "/">>

----------------------------------------------------------------------------
(* JSON values as encoding/json decodes them into interface{}.              *)
(* A number is a float64; the model keeps the multiples of one half,        *)
(* a number n being stored as 2n.                                           *)

JAbsent == [t |-> "absent"]

JNull == [t |-> "null"]

JStr(s) == [t |-> "str", s |-> s]

JNum(halves) == [t |-> "num", halves |-> halves]

JBool(b) == [t |-> "bool", b |-> b]

JObj(code, message) == [t |-> "obj", code |-> code, message |-> message]

JTree(root) == [t |-> "tree", root |-> root]

\* Resp.Content: the keys the client reads.
Content(error, session_id, status, categories) ==
    [error |-> error, session_id |-> session_id, status |-> status,
     categories |-> categories]

\* What the HTTP round trip of one Call can give.
NetErr == [k |-> "neterr"]

\* A body that is no JSON value at all.
Garbage == [k |-> "garbage"]

\* A JSON object with a member of the wrong type ("status":"1", "seq":"x"):
\* the decoder reports the type error after it has filled the other fields.
\* status and content are what it left in Resp.Status and Resp.Content.
Mistyped(status, content) == [k |-> "mistyped", status |-> status, content |-> content]

Envelope(status, content) == [k |-> "envelope", status |-> status, content |-> content]

----------------------------------------------------------------------------
(* Errors. Go error values, kept by kind and by the texts they carry.       *)

NoText == [present |-> FALSE, s |-> ""]

Text(s) == [present |-> TRUE, s |-> s]

Err(kind, text) == [kind |-> kind, text |-> text, Status |-> -1, Message |-> ""]

NilErr == Err("nil", NoText)

\* &SubscribeError{code, message}
SubscribeError(code, message) ==
    [kind |-> "SubscribeError", text |-> NoText, Status |-> code, Message |-> message]

API_STATUS_OK == 0

API_STATUS_ERR == 1

NO_ERROR_TEXT == "(response contained no error text)"

NO_UNDERLYING == "(no underlying error returned by API)"

----------------------------------------------------------------------------
(* ttrss.Client.Call                                                        *)

\* The zero Client, as `var tt ttrss.Client` declares it.
ZeroClient == [ApiEP |-> <<>>, SessionID |-> ""]

\* A variant of Request that sets sid whatever the token is.
RequestSidAlways(client, op, body) ==
    [url |-> client.ApiEP, op |-> op, sid |-> Text(client.SessionID), body |-> body]

\* body["op"] = op; body["sid"] = tt.SessionID when the client holds one.
Request(client, op, body) ==
    [url |-> client.ApiEP, op |-> op,
     sid |-> IF client.SessionID # "" THEN Text(client.SessionID) ELSE NoText,
     body |-> body]

\* A variant of RespError that substitutes no placeholder text.
RespErrorNoDefault(status, content) ==
    IF content.error.t = "str" THEN Text(content.error.s) ELSE NoText

\* A variant of RespError that reads the content's error only when the
\* status is not ok.
RespErrorStatusFirst(status, content) ==
    IF status = API_STATUS_OK THEN NoText
    ELSE IF content.error.t = "str" THEN Text(content.error.s)
    ELSE Text(NO_ERROR_TEXT)

\* resp.Error after a successful decode.
RespError(status, content) ==
    IF content.error.t = "str" THEN Text(content.error.s)
    ELSE IF status # API_STATUS_OK THEN Text(NO_ERROR_TEXT)
    ELSE NoText

NoResp == [Status |-> 0, Error |-> NoText, Content |-> Content(JAbsent, JAbsent, JAbsent, JAbsent)]

\* http.Client.Post connects only for a URL whose scheme is http or https
\* and that names a host; any other URL is refused before a request is sent.
Postable(url) == UrlScheme(url) \in {HTTP, HTTPS} /\ UrlHost(url) # <<>>

\* A nil map passed as body, and a body that holds a value encoding/json
\* cannot encode (a channel, a function).
NilBody == [nil |-> TRUE]

UnencodableBody == [value |-> "chan"]

\* AsJSONBuffer: the encoder's error for a value it cannot encode.
Encodable(body) == body # UnencodableBody

\* A variant of Call that also returns an error for a decoded envelope whose
\* status is not ok.
CallErrOnStatus(client, op, body, reply) ==
    LET req == Request(client, op, body) IN
    IF body = NilBody
    THEN [sent |-> <<>>, resp |-> NoResp, err |-> NilErr, panicked |-> TRUE]
    ELSE IF ~Encodable(body)
    THEN [sent |-> <<>>, resp |-> NoResp, err |-> Err("encode", NoText), panicked |-> FALSE]
    ELSE IF ~Postable(client.ApiEP) \/ reply.k = "neterr"
    THEN [sent |-> IF Postable(client.ApiEP) THEN <<req>> ELSE <<>>,
          resp |-> NoResp, err |-> Err("connection", NoText), panicked |-> FALSE]
    ELSE IF reply.k = "garbage"
    THEN [sent |-> <<req>>, resp |-> NoResp, err |-> Err("malformed", NoText),
          panicked |-> FALSE]
    ELSE IF reply.k = "mistyped"
    THEN [sent |-> <<req>>,
          resp |-> [Status |-> reply.status, Error |-> NoText, Content |-> reply.content],
          err |-> Err("malformed", NoText), panicked |-> FALSE]
    ELSE [sent |-> <<req>>,
          resp |-> [Status |-> reply.status,
                    Error |-> RespError(reply.status, reply.content),
                    Content |-> reply.content],
          err |-> IF reply.status # API_STATUS_OK THEN Err("api", NoText) ELSE NilErr,
          panicked |-> FALSE]

\* A variant of Call that posts the request a second time when the first
\* POST failed in transport.
CallRetriesOnce(client, op, body, reply) ==
    LET req == Request(client, op, body) IN
    IF body = NilBody
    THEN [sent |-> <<>>, resp |-> NoResp, err |-> NilErr, panicked |-> TRUE]
    ELSE IF ~Encodable(body)
    THEN [sent |-> <<>>, resp |-> NoResp, err |-> Err("encode", NoText), panicked |-> FALSE]
    ELSE IF ~Postable(client.ApiEP)
    THEN [sent |-> <<>>, resp |-> NoResp, err |-> Err("connection", NoText),
          panicked |-> FALSE]
    ELSE IF reply.k = "neterr"
    THEN [sent |-> <<req, req>>, resp |-> NoResp, err |-> Err("connection", NoText),
          panicked |-> FALSE]
    ELSE IF reply.k = "garbage"
    THEN [sent |-> <<req>>, resp |-> NoResp, err |-> Err("malformed", NoText),
          panicked |-> FALSE]
    ELSE IF reply.k = "mistyped"
    THEN [sent |-> <<req>>,
          resp |-> [Status |-> reply.status, Error |-> NoText, Content |-> reply.content],
          err |-> Err("malformed", NoText), panicked |-> FALSE]
    ELSE [sent |-> <<req>>,
          resp |-> [Status |-> reply.status,
                    Error |-> RespError(reply.status, reply.content),
                    Content |-> reply.content],
          err |-> NilErr, panicked |-> FALSE]

\* Call: body["op"] = op panics on a nil map; the body is encoded; one POST
\* of the request to tt.ApiEP; then the decode of the envelope. A decode
\* that fails returns before resp.Error is computed, with the fields the
\* decoder had filled.
Call(client, op, body, reply) ==
    LET req == Request(client, op, body) IN
    IF body = NilBody
    THEN [sent |-> <<>>, resp |-> NoResp, err |-> NilErr, panicked |-> TRUE]
    ELSE IF ~Encodable(body)
    THEN [sent |-> <<>>, resp |-> NoResp, err |-> Err("encode", NoText), panicked |-> FALSE]
    ELSE IF ~Postable(client.ApiEP)
    THEN [sent |-> <<>>, resp |-> NoResp, err |-> Err("connection", NoText),
          panicked |-> FALSE]
    ELSE IF reply.k = "neterr"
    THEN [sent |-> <<req>>, resp |-> NoResp, err |-> Err("connection", NoText),
          panicked |-> FALSE]
    ELSE IF reply.k = "garbage"
    THEN [sent |-> <<req>>, resp |-> NoResp, err |-> Err("malformed", NoText),
          panicked |-> FALSE]
    ELSE IF reply.k = "mistyped"
    THEN [sent |-> <<req>>,
          resp |-> [Status |-> reply.status, Error |-> NoText, Content |-> reply.content],
          err |-> Err("malformed", NoText), panicked |-> FALSE]
    ELSE [sent |-> <<req>>,
          resp |-> [Status |-> reply.status,
                    Error |-> RespError(reply.status, reply.content),
                    Content |-> reply.content],
          err |-> NilErr, panicked |-> FALSE]

----------------------------------------------------------------------------
(* ttrss.Client.Login                                                       *)

ConnInfo(host, user, password) == [HostURL |-> host, User |-> user, Password |-> password]

\* A variant of ApiEndpoint that appends "api/" only when it is missing.
ApiEndpointIfMissing(host) ==
    IF HasSuffix(host, SLASH \o API_PATH) THEN host
    ELSE (IF HasSuffix(host, SLASH) THEN host ELSE host \o SLASH) \o API_PATH

\* apiEP := conn.HostURL; a "/" is appended if missing, then "api/".
ApiEndpoint(host) ==
    (IF HasSuffix(host, SLASH) THEN host ELSE host \o SLASH) \o API_PATH

\* An error text that holds a formatting verb, and what fmt prints for a
\* verb that has no operand.
VERB_TEXT == "%d"

VERB_MISSING == "%!d(MISSING)"

\* fmt.Errorf(msg, apiEP, conn.User) with the error text appended to the
\* format msg: the two %s of msg take the two operands, a verb inside the
\* appended text finds none. Texts are opaque but for the one with a verb.
Errorf(text) == IF text = VERB_TEXT THEN VERB_MISSING ELSE text

\* The error text in the message of a failed Login: msg += ": " + the text
\* of resp.Error when resp.Error is not nil, then the formatting.
LoginErrorText(respError) ==
    IF respError.present THEN Text(Errorf(respError.s)) ELSE NoText

\* Login: tt.ApiEP is assigned before the call is made; tt.SessionID only on
\* success; a session_id that is not a string panics in sessionID.(string).
Login(client, conn, reply) ==
    LET apiEP == ApiEndpoint(conn.HostURL)
        t1 == [client EXCEPT !.ApiEP = apiEP]
        c == Call(t1, "login", [user |-> conn.User, password |-> conn.Password], reply)
        sid == c.resp.Content.session_id
    IN  IF c.err # NilErr
        THEN [tt |-> t1, sent |-> c.sent, panicked |-> FALSE,
              ret |-> [ok |-> FALSE, err |-> c.err]]
        ELSE IF sid.t = "absent" \/ c.resp.Status # API_STATUS_OK
        THEN [tt |-> t1, sent |-> c.sent, panicked |-> FALSE,
              ret |-> [ok |-> FALSE, err |-> Err("login", LoginErrorText(c.resp.Error))]]
        ELSE IF sid.t # "str"
        THEN [tt |-> t1, sent |-> c.sent, panicked |-> TRUE,
              ret |-> [ok |-> FALSE, err |-> NilErr]]
        ELSE [tt |-> [t1 EXCEPT !.SessionID = sid.s], sent |-> c.sent, panicked |-> FALSE,
              ret |-> [ok |-> TRUE, err |-> NilErr]]

----------------------------------------------------------------------------
(* ttrss.Client.Subscribe                                                   *)

SUB_ALREADY_ADDED == 0

SUB_ADDED == 1

SUB_INVALID_URL == 2

SUB_HTML_NO_FEEDS == 3

SUB_HTML_MULTIPLE_FEEDS == 4

SUB_GET_FAILED == 5

SUB_XML_INVALID == 6

\* A variant of StatusString that gives SUB_ADDED a text.
StatusStringAddedText(status) ==
    CASE status = SUB_ALREADY_ADDED -> "already subscribed to feed"
      [] status = SUB_ADDED -> "subscribed to feed"
      [] status = SUB_INVALID_URL -> "invalid feed URL"
      [] status = SUB_HTML_NO_FEEDS -> "no feed link found in HTML at URL"
      [] status = SUB_HTML_MULTIPLE_FEEDS -> "multiple feed links found in HTML at URL"
      [] status = SUB_GET_FAILED -> "unable to GET URL"
      [] status = SUB_XML_INVALID -> "invalid XML at URL"
      [] OTHER -> ""

\* SubscribeStatus.String(); the default case formats a text and drops it.
StatusString(status) ==
    CASE status = SUB_ALREADY_ADDED -> "already subscribed to feed"
      [] status = SUB_ADDED -> ""
      [] status = SUB_INVALID_URL -> "invalid feed URL"
      [] status = SUB_HTML_NO_FEEDS -> "no feed link found in HTML at URL"
      [] status = SUB_HTML_MULTIPLE_FEEDS -> "multiple feed links found in HTML at URL"
      [] status = SUB_GET_FAILED -> "unable to GET URL"
      [] status = SUB_XML_INVALID -> "invalid XML at URL"
      [] OTHER -> ""

\* SubscribeStatus(jsonCode): a float64 converted to int loses its fraction
\* (truncation toward zero). The argument is the number in halves.
FloatToInt(halves) ==
    IF halves >= 0 THEN halves \div 2 ELSE -((-halves) \div 2)

\* The request body Subscribe builds.
SubscribeMap(feedURL, categoryID, feedUsername, feedPassword) ==
    [feed_url |-> feedURL, category_id |-> categoryID,
     login |-> IF feedUsername # "" THEN Text(feedUsername) ELSE NoText,
     password |-> IF feedUsername # "" THEN Text(feedPassword) ELSE NoText]

\* message, ok := subscribeStatus["message"].(string), with its placeholder.
SubscribeMessage(st) ==
    IF st.message.t = "str" THEN st.message.s ELSE NO_UNDERLYING

\* Subscribe: (didSubscribe, err); err is a *SubscribeError once the status
\* code passed the range test SUB_ADDED <= code <= SUB_XML_INVALID.
Subscribe(client, feedURL, categoryID, feedUsername, feedPassword, reply) ==
    LET c == Call(client, "subscribeToFeed",
                  SubscribeMap(feedURL, categoryID, feedUsername, feedPassword), reply)
        st == c.resp.Content.status
        ok == st.code.t = "num"
        code == IF ok THEN FloatToInt(st.code.halves) ELSE 0
        tok == SUB_ADDED <= code /\ code <= SUB_XML_INVALID
    IN  IF c.err # NilErr
        THEN [sent |-> c.sent, ret |-> [didSubscribe |-> FALSE, err |-> c.err]]
        ELSE IF c.resp.Error.present
        THEN [sent |-> c.sent,
              ret |-> [didSubscribe |-> FALSE, err |-> Err("api", c.resp.Error)]]
        ELSE IF st.t # "obj"
        THEN [sent |-> c.sent,
              ret |-> [didSubscribe |-> FALSE, err |-> Err("nostatus", NoText)]]
        ELSE IF ~ok \/ ~tok
        THEN [sent |-> c.sent,
              ret |-> [didSubscribe |-> FALSE, err |-> Err("unknownstatus", NoText)]]
        ELSE [sent |-> c.sent,
              ret |-> [didSubscribe |-> code = SUB_ADDED \/ code = SUB_ALREADY_ADDED,
                       err |-> SubscribeError(code, SubscribeMessage(st))]]

\* SubscribeError.Error(): "<status text>: <message>", kept as its two parts.
SubscribeErrorText(err) == [status |-> StatusString(err.Status), message |-> err.Message]

----------------------------------------------------------------------------
(* PathComponents                                                           *)

BACKSLASH == <<"\\">>

RECURSIVE SplitSlash(_)
\* strings.Split(path, "/"): one more part than there are separators.
SplitSlash(s) ==
    IF s = <<>> THEN << <<>> >>
    ELSE LET r == SplitSlash(Tail(s)) IN
         IF Head(s) = "/" THEN << <<>> >> \o r
         ELSE << <<Head(s)>> \o Head(r) >> \o Tail(r)

RECURSIVE CleanParts(_, _, _, _)
\* The loop over the rough parts, with its one extra round that flushes
\* what an escape at the end left in partial.
CleanParts(roughParts, i, partial, parts) ==
    IF i > Len(roughParts) + 1 THEN parts
    ELSE IF i <= Len(roughParts) /\ HasSuffix(roughParts[i], BACKSLASH)
    THEN CleanParts(roughParts, i + 1,
                    partial \o SubSeq(roughParts[i], 1, Len(roughParts[i]) - 1) \o SLASH,
                    parts)
    ELSE LET p == IF i <= Len(roughParts) THEN partial \o roughParts[i] ELSE partial IN
         IF p # <<>>
         THEN CleanParts(roughParts, i + 1, <<>>, Append(parts, p))
         ELSE CleanParts(roughParts, i + 1, <<>>, parts)

\* A variant of PathComponents that splits at every separator and knows
\* no escape.
PathComponentsPlainSplit(path) ==
    LET trimmed == IF HasPrefix(path, SLASH) THEN Tail(path) ELSE path
    IN  SelectSeq(SplitSlash(trimmed), LAMBDA p : p # <<>>)

PathComponents(path) ==
    LET trimmed == IF HasPrefix(path, SLASH) THEN Tail(path) ELSE path
    IN  CleanParts(SplitSlash(trimmed), 1, <<>>, <<>>)

----------------------------------------------------------------------------
(* The feed tree and ResolveCatPath                                         *)

Category == "category"

Feed == "feed"

\* ttrss.FeedTreeItem, by the fields the tool reads.
FeedTreeItem(type, name, id, items) ==
    [Type |-> type, Name |-> name, ID |-> id, Items |-> items]

NoItem == [Type |-> "nil"]

\* tt.GetFeedTree(true): the tree in the reply's content, or the call's error.
GetFeedTree(client, reply) ==
    LET c == Call(client, "getFeedTree", [include_empty |-> TRUE], reply) IN
    IF c.err # NilErr
    THEN [sent |-> c.sent, tree |-> NoItem, err |-> c.err]
    ELSE IF c.resp.Error.present
    THEN [sent |-> c.sent, tree |-> NoItem, err |-> Err("api", c.resp.Error)]
    ELSE IF c.resp.Content.categories.t # "tree"
    THEN [sent |-> c.sent, tree |-> NoItem, err |-> Err("notree", NoText)]
    ELSE [sent |-> c.sent, tree |-> c.resp.Content.categories.root, err |-> NilErr]

\* walkFn: what it returns for one item and what it leaves in walkParts.
\* walkParts[1:len(walkParts)-1] panics when walkParts holds one element and
\* otherwise drops the first and the last.
WalkFn(item, walkParts) ==
    IF Len(walkParts) = 0
    THEN [ret |-> "result", walkParts |-> walkParts]
    ELSE IF item.Name = walkParts[1]
    THEN IF Len(walkParts) - 1 < 1
         THEN [ret |-> "panic", walkParts |-> walkParts]
         ELSE [ret |-> "nil", walkParts |-> SubSeq(walkParts, 2, Len(walkParts) - 1)]
    ELSE IF item.Type = Category
    THEN [ret |-> "SkipDir", walkParts |-> walkParts]
    ELSE [ret |-> "nil", walkParts |-> walkParts]

RECURSIVE WalkFeedTree(_, _)
RECURSIVE WalkItems(_, _, _)
\* ttrss.WalkFeedTree: walkFn on the item, then on its children in the
\* server's order; SkipDir skips the item's children, any other error ends
\* the walk. st is [walkParts, status, item].
WalkFeedTree(item, st) ==
    LET r == WalkFn(item, st.walkParts) IN
    CASE r.ret = "result" -> [st EXCEPT !.status = "result", !.item = item]
      [] r.ret = "panic" -> [st EXCEPT !.status = "panic"]
      [] r.ret = "SkipDir" -> st
      [] OTHER -> WalkItems(item.Items, 1, [st EXCEPT !.walkParts = r.walkParts])

WalkItems(items, i, st) ==
    IF i > Len(items) \/ st.status # "walking" THEN st
    ELSE WalkItems(items, i + 1, WalkFeedTree(items[i], st))

\* ResolveCatPath: (item, err), or a panic. After the walk err is assigned
\* the not-found error whatever the walk gave.
ResolveCatPath(client, catpath, reply) ==
    LET parts == PathComponents(catpath)
        g == GetFeedTree(client, reply)
        w == WalkFeedTree(g.tree, [walkParts |-> parts, status |-> "walking", item |-> NoItem])
    IN  IF g.err # NilErr
        THEN [sent |-> g.sent, panicked |-> FALSE, ret |-> [item |-> NoItem, err |-> g.err]]
        ELSE IF w.status = "panic"
        THEN [sent |-> g.sent, panicked |-> TRUE, ret |-> [item |-> NoItem, err |-> NilErr]]
        ELSE [sent |-> g.sent, panicked |-> FALSE,
              ret |-> [item |-> IF w.status = "result" THEN w.item ELSE NoItem,
                       err |-> Err("notfound", NoText)]]

----------------------------------------------------------------------------
(* The inputs: what a caller passes and what a server may answer.           *)

\* Largest number (in halves) a reply carries as a subscribe status code.
MaxCodeHalves == 15

\* "http://h", and the same host as an upper-case https URL.
HOST_URL == HTTP \o COLON \o SLASH \o SLASH \o <<"h">>

HOST_URL_UPPER == <<"H", "T", "T", "P", "S">> \o COLON \o SLASH \o SLASH \o <<"h">>

\* Host URLs a caller passes: with and without the trailing "/", with the
\* API path already on it, in upper case, and two that http.Client.Post
\* refuses ("http" alone, and a scheme that merely starts with http).
Hosts ==
    {HOST_URL, HOST_URL \o SLASH, HOST_URL \o SLASH \o API_PATH, HOST_URL_UPPER,
     HTTP, HTTP \o <<"x">> \o COLON \o SLASH \o SLASH \o <<"h">>}

Conns == {ConnInfo(h, "alice", "pw") : h \in Hosts}

EnvelopeStatuses == {API_STATUS_OK, API_STATUS_ERR, 2}

ErrorVals == {JAbsent, JNull, JStr(""), JStr("boom"), JStr(VERB_TEXT)}

SessionIdVals == {JAbsent, JNull, JStr(""), JStr("s1"), JStr("s2"), JNum(2), JBool(TRUE)}

CodeVals == {JAbsent, JStr("1")} \cup {JNum(h) : h \in -2 .. MaxCodeHalves}

MessageVals == {JAbsent, JStr(""), JStr("m"), JNum(0)}

SubscribeStatusVals ==
    {JAbsent, JStr("x")} \cup {JObj(c, m) : c \in CodeVals, m \in MessageVals}

\* What a decode that stopped on a type error left in resp.
MistypedReplies ==
    {Mistyped(s, c) :
        s \in {API_STATUS_OK, API_STATUS_ERR},
        c \in {Content(JAbsent, JAbsent, JAbsent, JAbsent),
               Content(JStr("boom"), JStr("s1"), JObj(JNum(2), JStr("m")), JAbsent)}}

Failures == {NetErr, Garbage} \cup MistypedReplies

LoginReplies ==
    Failures \cup
    {Envelope(s, Content(e, sid, JAbsent, JAbsent)) :
        s \in EnvelopeStatuses, e \in ErrorVals, sid \in SessionIdVals}

SubscribeReplies ==
    Failures \cup
    {Envelope(s, Content(e, JAbsent, st, JAbsent)) :
        s \in EnvelopeStatuses, e \in ErrorVals, st \in SubscribeStatusVals}

SubscribeArgs ==
    {[feedURL |-> "http://feed", categoryID |-> 3, feedUsername |-> u, feedPassword |-> "fp"] :
        u \in {"", "bob"}}

\* What a caller of Call itself passes, and what it is answered.
CallOps == {"getFeedTree", "getVersion"}

CallBodies == {[include_empty |-> TRUE], NilBody, UnencodableBody}

CallReplies ==
    Failures \cup
    {Envelope(s, Content(e, JAbsent, JAbsent, JAbsent)) :
        s \in EnvelopeStatuses, e \in ErrorVals}

\* A reply is read only when the request could be posted.
Answers(client, replies) == IF Postable(client.ApiEP) THEN replies ELSE {NetErr}

\* Longest catpath, in characters.
MaxPathLen == 4

\* Longest path given to PathComponents alone, in characters.
MaxParseLen == 6

\* Most items the root holds, and most a category below it holds.
MaxRootItems == 2

MaxChildren == 1

SeqsUpTo(S, n) == UNION {[1 .. k -> S] : k \in 0 .. n}

PathChars == {"/", "\\", "A", "x"}

Paths == SeqsUpTo(PathChars, MaxPathLen)

ParsePaths == SeqsUpTo(PathChars, MaxParseLen)

Names == {<<"A">>, <<"x">>}

\* Items without children: feeds, and categories that are empty.
Leaves ==
    {FeedTreeItem(Feed, n, 5, <<>>) : n \in Names}
    \cup {FeedTreeItem(Category, n, 7, <<>>) : n \in Names}

\* What the root may hold: feeds, and categories of leaves.
RootItems ==
    {FeedTreeItem(Feed, n, 5, <<>>) : n \in Names}
    \cup {FeedTreeItem(Category, n, 3, items) :
            n \in Names, items \in SeqsUpTo(Leaves, MaxChildren)}

\* The root is the object the reply holds under "categories"; it has no
\* name, and its Type is what the decoding left there.
Trees ==
    {FeedTreeItem(type, <<>>, 0, items) :
        type \in {Category, Feed}, items \in SeqsUpTo(RootItems, MaxRootItems)}

TreeReplies ==
    Failures
    \cup {Envelope(API_STATUS_ERR, Content(JStr("boom"), JAbsent, JAbsent, JAbsent)),
          Envelope(API_STATUS_OK, Content(JAbsent, JAbsent, JAbsent, JAbsent))}
    \cup {Envelope(API_STATUS_OK, Content(JAbsent, JAbsent, JAbsent, JTree(t))) : t \in Trees}

\* A client after a Login that succeeded.
LoggedIn == [ApiEP |-> ApiEndpoint(HOST_URL), SessionID |-> "s1"]

----------------------------------------------------------------------------
(* The library under a caller that logs in and subscribes in any order.     *)

NoRes == [op |-> "none"]

\* No tool process: the library is used by a caller of its own.
NoProc == [in |-> "none"]

Init ==
    /\ tt = ZeroClient
    /\ res = NoRes
    /\ pc = "caller"
    /\ proc = NoProc
    /\ hist = <<>>

\* The caller calls tt.Login(conn).
DoLogin ==
    /\ pc = "caller"
    /\ \E conn \in Conns :
       \E reply \in Answers([tt EXCEPT !.ApiEP = ApiEndpoint(conn.HostURL)], LoginReplies) :
          LET r == Login(tt, conn, reply) IN
          /\ tt' = r.tt
          /\ res' = [op |-> "Login", arg |-> conn, reply |-> reply, before |-> tt,
                     sent |-> r.sent, ret |-> r.ret, panicked |-> r.panicked]
    /\ pc' = "returned"
    /\ UNCHANGED <<proc, hist>>

\* The caller calls tt.Subscribe(feedURL, categoryID, feedUsername, feedPassword).
DoSubscribe ==
    /\ pc = "caller"
    /\ \E a \in SubscribeArgs, reply \in Answers(tt, SubscribeReplies) :
          LET r == Subscribe(tt, a.feedURL, a.categoryID, a.feedUsername,
                             a.feedPassword, reply) IN
          res' = [op |-> "Subscribe", arg |-> a, reply |-> reply, before |-> tt,
                  sent |-> r.sent, ret |-> r.ret, panicked |-> FALSE]
    /\ pc' = "returned"
    /\ UNCHANGED <<tt, proc, hist>>

\* The caller calls tt.Call(op, body) itself.
DoCall ==
    /\ pc = "caller"
    /\ \E op \in CallOps, body \in CallBodies, reply \in Answers(tt, CallReplies) :
          LET c == Call(tt, op, body, reply) IN
          res' = [op |-> "Call", arg |-> [op |-> op, body |-> body], reply |-> reply,
                  before |-> tt, sent |-> c.sent,
                  ret |-> [resp |-> c.resp, err |-> c.err], panicked |-> c.panicked]
    /\ pc' = "returned"
    /\ UNCHANGED <<tt, proc, hist>>

\* The caller has read what the call returned and goes on; a panic ends it.
Continue ==
    /\ pc = "returned"
    /\ ~res.panicked
    /\ pc' = "caller"
    /\ res' = NoRes
    /\ UNCHANGED <<tt, proc, hist>>

Next == DoLogin \/ DoSubscribe \/ DoCall \/ Continue

Spec == Init /\ [][Next]_vars

----------------------------------------------------------------------------
(* Subscribe and Login as their caller sees them.                           *)

SubscribeReturned == pc = "returned" /\ res.op = "Subscribe"

LoginReturned == pc = "returned" /\ res.op = "Login"

\* The reply is a decoded envelope with status ok and no error text in it.
OkEnvelope(reply) ==
    /\ reply.k = "envelope"
    /\ reply.status = API_STATUS_OK
    /\ reply.content.error.t # "str"

\* The reply's content.status is an object whose code is a number.
HasNumericCode(reply) ==
    /\ reply.k = "envelope"
    /\ reply.content.status.t = "obj"
    /\ reply.content.status.code.t = "num"

CodeHalves(reply) == reply.content.status.code.halves

\* The reply's status code is the integer n.
CodeIs(reply, n) == HasNumericCode(reply) /\ CodeHalves(reply) = 2 * n

GenericErrors == {"connection", "malformed", "api", "nostatus", "unknownstatus"}

\* The reply could not be decoded: no JSON at all, or a member of a wrong type.
Undecodable(reply) == reply.k \in {"garbage", "mistyped"}

\* C5 (as claimed): an ok envelope whose status code is one of 0..6 gives a
\* typed outcome carrying that code, and subscribed is true exactly for the
\* codes 0 (already subscribed) and 1 (added).
C5_TypedOutcomeForEveryCode ==
    \A n \in SUB_ALREADY_ADDED .. SUB_XML_INVALID :
        (SubscribeReturned /\ OkEnvelope(res.reply) /\ CodeIs(res.reply, n))
        => /\ res.ret.err.kind = "SubscribeError"
           /\ res.ret.err.Status = n
           /\ res.ret.didSubscribe = (n \in {SUB_ALREADY_ADDED, SUB_ADDED})

\* C6 (as claimed): a status code outside the enumeration 0..6, or one that
\* is not a number, is never accepted as an outcome: Subscribe returns
\* subscribed = false with a generic error.
C6_OutOfRangeCodeRejected ==
    (/\ SubscribeReturned
     /\ res.reply.k = "envelope"
     /\ res.reply.content.status.t = "obj"
     /\ \/ ~HasNumericCode(res.reply)
        \/ \A n \in SUB_ALREADY_ADDED .. SUB_XML_INVALID : ~CodeIs(res.reply, n))
    => /\ ~res.ret.didSubscribe
       /\ res.ret.err.kind \in GenericErrors

\* C7 (as claimed): whatever message the reply carries, code 1 gives
\* subscribed = true with an empty outcome message, and code 2 gives
\* subscribed = false with a non-empty outcome message.
C7_MessageEmptyIffAdded ==
    (SubscribeReturned /\ OkEnvelope(res.reply))
    => /\ CodeIs(res.reply, SUB_ADDED)
            => (res.ret.didSubscribe /\ res.ret.err.kind = "SubscribeError"
                /\ res.ret.err.Message = "")
       /\ CodeIs(res.reply, SUB_INVALID_URL)
            => (~res.ret.didSubscribe /\ res.ret.err.kind = "SubscribeError"
                /\ res.ret.err.Message # "")

\* C7 (amended): code 1 gives subscribed = true and an outcome whose status
\* text is empty, code 2 gives subscribed = false and a non-empty status
\* text; the outcome's Message is the reply's message when that is a string
\* and the fixed placeholder otherwise.
C7_StatusTextEmptyIffAdded ==
    (SubscribeReturned /\ OkEnvelope(res.reply))
    => LET m == res.reply.content.status.message
           expected == IF m.t = "str" THEN m.s ELSE NO_UNDERLYING
       IN  /\ CodeIs(res.reply, SUB_ADDED)
                => /\ res.ret.didSubscribe
                   /\ res.ret.err = SubscribeError(SUB_ADDED, expected)
                   /\ SubscribeErrorText(res.ret.err).status = ""
           /\ CodeIs(res.reply, SUB_INVALID_URL)
                => /\ ~res.ret.didSubscribe
                   /\ res.ret.err = SubscribeError(SUB_INVALID_URL, expected)
                   /\ SubscribeErrorText(res.ret.err).status # ""

\* Subscribe returned for code 1 with no message in the reply: subscribed,
\* and the outcome's Message is the placeholder.
C7_Witness ==
    /\ SubscribeReturned
    /\ OkEnvelope(res.reply)
    /\ CodeIs(res.reply, SUB_ADDED)
    /\ res.reply.content.status.message = JAbsent
    /\ res.ret.didSubscribe
    /\ res.ret.err.Message = NO_UNDERLYING

\* C8: when the call fails in transport or decoding, or the envelope's
\* status is not ok, Subscribe returns subscribed = false with a generic
\* error that does not come from reading content.status.
C8_FailedCallGivesGenericError ==
    (/\ SubscribeReturned
     /\ \/ res.reply \in Failures
        \/ res.reply.k = "envelope" /\ res.reply.status # API_STATUS_OK)
    => /\ ~res.ret.didSubscribe
       /\ res.ret.err.kind \in {"connection", "malformed", "api"}
       /\ res.reply = NetErr => res.ret.err.kind = "connection"
       /\ Undecodable(res.reply) => res.ret.err.kind = "malformed"
       /\ res.reply.k = "envelope" => res.ret.err.kind = "api"

\* Subscribe returned a generic error for an error-status envelope whose
\* content.status says "added" and which carries no error text.
C8_Witness ==
    /\ SubscribeReturned
    /\ res.reply.k = "envelope"
    /\ res.reply.status = API_STATUS_ERR
    /\ res.reply.content.error = JAbsent
    /\ CodeIs(res.reply, SUB_ADDED)
    /\ ~res.ret.didSubscribe
    /\ res.ret.err = Err("api", Text(NO_ERROR_TEXT))

\* C10 (as claimed): after a Login that failed the client holds no session
\* token, and its endpoint is the one it had before that Login.
C10_FailedLoginLeavesNoState ==
    (LoginReturned /\ ~res.ret.ok)
    => /\ tt.SessionID = ""
       /\ tt.ApiEP = res.before.ApiEP

\* C11 (as claimed): when the login call returned an envelope, Login returns
\* ok = false with an auth error exactly when the status is not ok or the
\* content has no session_id, and otherwise ok = true with a nil error and a
\* session token equal to the reply's session_id.
C11_LoginOkIffSessionId ==
    (LoginReturned /\ res.reply.k = "envelope")
    => LET fails == \/ res.reply.status # API_STATUS_OK
                    \/ res.reply.content.session_id = JAbsent
       IN  /\ ~res.panicked
           /\ fails => (~res.ret.ok /\ res.ret.err.kind = "login")
           /\ ~fails => /\ res.ret.ok
                         /\ res.ret.err = NilErr
                         /\ res.reply.content.session_id = JStr(tt.SessionID)

\* C12 (as claimed): every auth error Login returns carries an error text:
\* the reply's error text when it has one, the fixed placeholder otherwise.
C12_AuthErrorCarriesText ==
    (LoginReturned /\ res.ret.err.kind = "login")
    => LET e == res.reply.content.error IN
       res.ret.err.text = IF e.t = "str" THEN Text(e.s) ELSE Text(NO_ERROR_TEXT)

\* C13 (as claimed): the endpoint is the host with "/" appended if missing
\* and "api/" appended if missing, so a host that is a normalized endpoint
\* already is left as it is.
C13_EndpointNormalizationIdempotent ==
    LoginReturned
    => LET h == res.arg.HostURL
           withSlash == IF HasSuffix(h, SLASH) THEN h ELSE h \o SLASH
       IN  /\ HasSuffix(h, SLASH \o API_PATH) => tt.ApiEP = h
           /\ ~HasSuffix(h, SLASH \o API_PATH) => tt.ApiEP = withSlash \o API_PATH
           /\ \A i \in 1 .. Len(res.sent) : res.sent[i].url = tt.ApiEP

\* C13 (amended): the endpoint is the host, then "/" if the host does not
\* end with one, then "api/" in every case; the login request goes there.
C13_EndpointAppendsApiPath ==
    LoginReturned
    => LET h == res.arg.HostURL IN
       /\ HasPrefix(tt.ApiEP, h)
       /\ HasSuffix(tt.ApiEP, SLASH \o API_PATH)
       /\ Len(tt.ApiEP) = Len(h) + Len(API_PATH) + (IF HasSuffix(h, SLASH) THEN 0 ELSE 1)
       /\ \A i \in 1 .. Len(res.sent) : res.sent[i].url = tt.ApiEP

\* Login returned for a host that ends with "/api/" already: the request
\* went to the host with a second "api/" after it.
C13_Witness ==
    /\ LoginReturned
    /\ res.arg.HostURL = HOST_URL \o SLASH \o API_PATH
    /\ tt.ApiEP = HOST_URL \o SLASH \o API_PATH \o API_PATH
    /\ Len(res.sent) = 1
    /\ res.sent[1].url = tt.ApiEP

CallReturned == pc = "returned" /\ res.op = "Call"

\* The operation name the requests of the call in res must carry.
OpName(r) ==
    CASE r.op = "Login" -> "login"
      [] r.op = "Subscribe" -> "subscribeToFeed"
      [] r.op = "ResolveCatPath" -> "getFeedTree"
      [] OTHER -> r.arg.op

\* C14: every request a call sent carries the operation's name, and carries
\* sid exactly when the client held a non-empty token, sid being that token;
\* the token changes only in a Login that succeeds, to the reply's
\* session_id; Call and Subscribe leave the client as it was.
C14_RequestsCarryOpAndToken ==
    /\ []((pc = "returned" /\ res.op # "none")
            => \A i \in 1 .. Len(res.sent) :
                  /\ res.sent[i].op = OpName(res)
                  /\ res.before.SessionID # "" => res.sent[i].sid = Text(res.before.SessionID)
                  /\ res.before.SessionID = "" => ~res.sent[i].sid.present)
    /\ [][LET returns == pc = "caller" /\ pc' = "returned" IN
           /\ ~returns => tt' = tt
           /\ (returns /\ res'.op \in {"Call", "Subscribe"}) => tt' = tt
           /\ (returns /\ res'.op = "Login")
                => /\ res'.ret.ok => res'.reply.content.session_id = JStr(tt'.SessionID)
                   /\ ~res'.ret.ok => tt'.SessionID = tt.SessionID]_vars

\* Subscribe sent its one request with the token a Login had stored.
C14_Witness ==
    /\ SubscribeReturned
    /\ res.before.SessionID = "s1"
    /\ Len(res.sent) = 1
    /\ res.sent[1].op = "subscribeToFeed"
    /\ res.sent[1].sid = Text("s1")

\* C15: Call returns an error, and does not panic, when the request fails
\* in transport or the reply cannot be decoded; it returns an error only
\* when encoding, sending or decoding failed; a decoded envelope comes back
\* with a nil error, its status kept and, if not ok, its error text set.
C15_CallReturnsFailures ==
    CallReturned
    => LET attempted == res.arg.body # NilBody /\ Encodable(res.arg.body) IN
       /\ (attempted /\ res.reply = NetErr)
            => (~res.panicked /\ res.ret.err.kind = "connection")
       /\ (attempted /\ Undecodable(res.reply))
            => (~res.panicked /\ res.ret.err.kind = "malformed")
       /\ res.ret.err # NilErr
            => (~Encodable(res.arg.body) \/ res.reply \in Failures)
       /\ (attempted /\ res.reply.k = "envelope")
            => /\ ~res.panicked
               /\ res.ret.err = NilErr
               /\ res.ret.resp.Status = res.reply.status
               /\ res.reply.status # API_STATUS_OK => res.ret.resp.Error.present

\* Call returned an envelope of status "error" with a nil error.
C15_Witness ==
    /\ CallReturned
    /\ res.reply.k = "envelope"
    /\ res.reply.status = API_STATUS_ERR
    /\ res.ret.err = NilErr
    /\ res.ret.resp.Status = API_STATUS_ERR
    /\ res.ret.resp.Error.present

\* C16: after a decode the envelope's error text is the content's error
\* when that is a string, whatever the status; otherwise the non-empty
\* placeholder when the status is not ok; otherwise there is none.
C16_EnvelopeErrorText ==
    (CallReturned /\ ~res.panicked /\ res.reply.k = "envelope" /\ res.ret.err = NilErr)
    => LET e == res.reply.content.error
           E == res.ret.resp.Error
       IN  /\ e.t = "str" => E = Text(e.s)
           /\ (e.t # "str" /\ res.reply.status # API_STATUS_OK)
                => (E = Text(NO_ERROR_TEXT) /\ NO_ERROR_TEXT # "")
           /\ (e.t # "str" /\ res.reply.status = API_STATUS_OK) => ~E.present

\* Call returned an ok envelope whose content holds an error string: the
\* string is the envelope's error text.
C16_Witness ==
    /\ CallReturned
    /\ ~res.panicked
    /\ res.reply.k = "envelope"
    /\ res.reply.status = API_STATUS_OK
    /\ res.reply.content.error = JStr("boom")
    /\ res.ret.resp.Error = Text("boom")

\* C21: nothing is retried. A call of Call sends one request, or none when
\* the body cannot be encoded or the endpoint cannot be posted to; Login
\* and Subscribe send the one request of their one Call; and when the
\* request failed in transport or the reply could not be decoded, the
\* operation returns that failure with no second request sent.
C21_NothingIsRetried ==
    (pc = "returned" /\ res.op \in {"Call", "Login", "Subscribe"})
    => /\ Len(res.sent) <= 1
       /\ res.op = "Login" => Len(res.sent) = (IF Postable(tt.ApiEP) THEN 1 ELSE 0)
       /\ res.op = "Subscribe"
            => Len(res.sent) = (IF Postable(res.before.ApiEP) THEN 1 ELSE 0)
       /\ res.op = "Call"
            => Len(res.sent) = (IF /\ res.arg.body # NilBody
                                   /\ Encodable(res.arg.body)
                                   /\ Postable(res.before.ApiEP)
                                THEN 1 ELSE 0)
       /\ (Len(res.sent) > 0 /\ res.reply \in Failures)
            => /\ Len(res.sent) = 1
               /\ ~res.panicked
               /\ res.ret.err.kind = (IF res.reply = NetErr THEN "connection" ELSE "malformed")

\* Login returned the connection error after the one request it sent.
C21_Witness ==
    /\ LoginReturned
    /\ res.reply = NetErr
    /\ Len(res.sent) = 1
    /\ ~res.ret.ok
    /\ res.ret.err.kind = "connection"

\* C24 (as claimed): for a login envelope of status ok whose session_id is
\* present and not a string, Login does not panic: it returns ok = false
\* with an error and stores no token.
C24_LoginSurvivesLooseTypes ==
    (/\ LoginReturned
     /\ res.reply.k = "envelope"
     /\ res.reply.status = API_STATUS_OK
     /\ res.reply.content.session_id.t \notin {"absent", "str"})
    => /\ ~res.panicked
       /\ ~res.ret.ok
       /\ res.ret.err # NilErr
       /\ tt.SessionID = res.before.SessionID

----------------------------------------------------------------------------
(* ResolveCatPath under a caller that resolves one catpath after another.   *)

InitResolve ==
    /\ tt = LoggedIn
    /\ res = NoRes
    /\ pc = "caller"
    /\ proc = NoProc
    /\ hist = <<>>

\* The caller calls ResolveCatPath(catpath).
DoResolve ==
    /\ pc = "caller"
    /\ \E catpath \in Paths, reply \in Answers(tt, TreeReplies) :
          LET r == ResolveCatPath(tt, catpath, reply) IN
          res' = [op |-> "ResolveCatPath", arg |-> catpath, reply |-> reply, before |-> tt,
                  sent |-> r.sent, ret |-> r.ret, panicked |-> r.panicked]
    /\ pc' = "returned"
    /\ UNCHANGED <<tt, proc, hist>>

NextResolve == DoResolve \/ Continue

SpecResolve == InitResolve /\ [][NextResolve]_vars

ResolveReturned == pc = "returned" /\ res.op = "ResolveCatPath"

\* The tree the reply carries, when it carries one.
HasTree(reply) ==
    /\ reply.k = "envelope"
    /\ reply.status = API_STATUS_OK
    /\ reply.content.error.t # "str"
    /\ reply.content.categories.t = "tree"

TreeOf(reply) == reply.content.categories.root

\* The catpath ends with a separator that no escape character precedes.
EndsWithSeparator(path) ==
    /\ Len(path) >= 1
    /\ path[Len(path)] = "/"
    /\ Len(path) >= 2 => path[Len(path) - 1] # "\\"

RECURSIVE Follow(_, _)
\* The items reached from item by following the components by display name.
Follow(item, parts) ==
    IF parts = <<>> THEN {item}
    ELSE UNION {Follow(item.Items[i], Tail(parts)) :
                  i \in {j \in 1 .. Len(item.Items) : item.Items[j].Name = Head(parts)}}

CatA == FeedTreeItem(Category, <<"A">>, 3, <<FeedTreeItem(Feed, <<"x">>, 5, <<>>)>>)

FeedA == FeedTreeItem(Feed, <<"A">>, 5, <<>>)

\* C1 (as claimed): for every tree the server returns, ResolveCatPath("")
\* and ResolveCatPath("/") return the root of that tree and a nil error.
C1_EmptyPathGivesRoot ==
    (ResolveReturned /\ HasTree(res.reply) /\ res.arg \in {<<>>, <<"/">>})
    => /\ ~res.panicked
       /\ res.ret.item = TreeOf(res.reply)
       /\ res.ret.err = NilErr

\* C2 (as claimed): a catpath that ends with an unescaped separator resolves
\* to a category only; with category A (holding feed x) and feed A under the
\* root, in either order, "A/" resolves to the category A.
C2_TrailingSeparatorGivesCategory ==
    (ResolveReturned /\ HasTree(res.reply) /\ EndsWithSeparator(res.arg)
        /\ PathComponents(res.arg) # <<>>)
    => /\ (~res.panicked /\ res.ret.item # NoItem) => res.ret.item.Type = Category
       /\ (/\ res.arg = <<"A", "/">>
           /\ TreeOf(res.reply).Items \in {<<CatA, FeedA>>, <<FeedA, CatA>>})
          => (~res.panicked /\ res.ret.item = CatA)

\* C3 (as claimed): when a category and a feed under the root share the name
\* the one-component catpath gives, and the catpath has no trailing
\* separator, ResolveCatPath fails with an ambiguity error and no item.
C3_SameNameIsAmbiguous ==
    (/\ ResolveReturned
     /\ HasTree(res.reply)
     /\ ~EndsWithSeparator(res.arg)
     /\ Len(PathComponents(res.arg)) = 1
     /\ \E c, f \in Follow(TreeOf(res.reply), PathComponents(res.arg)) :
            c.Type = Category /\ f.Type = Feed)
    => /\ ~res.panicked
       /\ res.ret.item = NoItem
       /\ res.ret.err.kind = "ambiguous"

\* C4 (as claimed): when following the catpath's components by display name
\* from the root reaches no item, ResolveCatPath returns the not-found error
\* and no item.
C4_UnreachedIsNotFound ==
    (/\ ResolveReturned
     /\ HasTree(res.reply)
     /\ Follow(TreeOf(res.reply), PathComponents(res.arg)) = {})
    => /\ ~res.panicked
       /\ res.ret.item = NoItem
       /\ res.ret.err.kind = "notfound"

\* C22 (as claimed): a visited item whose name is the next component
\* consumes that one component and its children are visited next, an item
\* that does not match is skipped with its children; so an item that
\* ResolveCatPath returns for the components c1..cn is reached from the
\* root by the names c1..cn.
C22_ReturnedItemFollowsComponents ==
    (ResolveReturned /\ HasTree(res.reply) /\ ~res.panicked /\ res.ret.item # NoItem)
    => res.ret.item \in Follow(TreeOf(res.reply), PathComponents(res.arg))

\* C23 (as claimed): ResolveCatPath does not panic, whatever the tree and
\* the catpath: it returns an item or an error.
C23_ResolveNeverPanics ==
    ResolveReturned
    => /\ ~res.panicked
       /\ res.ret.item # NoItem \/ res.ret.err # NilErr

----------------------------------------------------------------------------
(* PathComponents under a caller that parses one path after another.        *)

InitPath ==
    /\ tt = ZeroClient
    /\ res = NoRes
    /\ pc = "caller"
    /\ proc = NoProc
    /\ hist = <<>>

\* The caller calls PathComponents(path).
DoPathComponents ==
    /\ pc = "caller"
    /\ \E path \in ParsePaths :
          res' = [op |-> "PathComponents", arg |-> path, ret |-> PathComponents(path),
                  panicked |-> FALSE]
    /\ pc' = "returned"
    /\ UNCHANGED <<tt, proc, hist>>

NextPath == DoPathComponents \/ Continue

SpecPath == InitPath /\ [][NextPath]_vars

PathReturned == pc = "returned" /\ res.op = "PathComponents"

RECURSIVE ScanComponents(_, _, _, _)
\* The components of p read one character at a time from position i: an
\* escape character followed by a separator is a literal "/", any other
\* separator ends the component, and empty components are dropped.
ScanComponents(p, i, cur, parts) ==
    LET flushed == IF cur = <<>> THEN parts ELSE Append(parts, cur) IN
    IF i > Len(p) THEN flushed
    ELSE IF p[i] = "\\" /\ i < Len(p) /\ p[i + 1] = "/"
    THEN ScanComponents(p, i + 2, cur \o SLASH, parts)
    ELSE IF p[i] = "/" THEN ScanComponents(p, i + 1, <<>>, flushed)
    ELSE ScanComponents(p, i + 1, Append(cur, p[i]), parts)

\* Two component sequences that differ at most in the last character of
\* the last component.
SameButLastChar(a, b) ==
    /\ Len(a) = Len(b)
    /\ \A i \in 1 .. Len(a) - 1 : a[i] = b[i]
    /\ Len(a) > 0
        => LET x == a[Len(a)]
               y == b[Len(b)]
           IN  /\ Len(x) = Len(y)
               /\ SubSeq(x, 1, Len(x) - 1) = SubSeq(y, 1, Len(y) - 1)

\* C17: a separator that the escape character precedes is a literal "/" of
\* its component, the escape character being removed, and every other
\* separator is a delimiter: the components are those of the scan. (What
\* an escape character at the very end of the path becomes is left open.)
C17_EscapedSeparatorIsLiteral ==
    PathReturned
    => LET scanned == ScanComponents(res.arg, 1, <<>>, <<>>) IN
       IF HasSuffix(res.arg, BACKSLASH)
       THEN SameButLastChar(res.ret, scanned)
       ELSE res.ret = scanned

\* PathComponents returned for A\/x/A, the example of the claim.
C17_Witness ==
    /\ PathReturned
    /\ res.arg = <<"A", "\\", "/", "x", "/", "A">>
    /\ res.ret = << <<"A", "/", "x">>, <<"A">> >>

\* No separator of the path has the escape character before it.
NoEscapedSeparator(path) ==
    \A i \in 1 .. Len(path) - 1 : ~(path[i] = "\\" /\ path[i + 1] = "/")

RECURSIVE Join(_)
\* The components with one separator between neighbours.
Join(parts) ==
    IF parts = <<>> THEN <<>>
    ELSE IF Len(parts) = 1 THEN parts[1]
    ELSE parts[1] \o SLASH \o Join(Tail(parts))

RECURSIVE Normalized(_)
\* The path without its leading, trailing and duplicate separators.
Normalized(path) ==
    IF path = <<>> THEN <<>>
    ELSE IF Head(path) = "/" THEN Normalized(Tail(path))
    ELSE IF path[Len(path)] = "/" THEN Normalized(SubSeq(path, 1, Len(path) - 1))
    ELSE IF \E i \in 1 .. Len(path) - 1 : path[i] = "/" /\ path[i + 1] = "/"
    THEN LET i == CHOOSE j \in 1 .. Len(path) - 1 : path[j] = "/" /\ path[j + 1] = "/"
         IN  Normalized(SubSeq(path, 1, i) \o SubSeq(path, i + 2, Len(path)))
    ELSE path

\* C18 (as claimed): for a path with no escaped separator, joining the
\* components with the separator gives the path without its leading,
\* trailing and duplicate separators; no component is empty, a leading
\* separator changes nothing, and the empty path has no components.
C18_SplitJoinReproducesPath ==
    (PathReturned /\ NoEscapedSeparator(res.arg))
    => /\ Join(res.ret) = Normalized(res.arg)
       /\ \A i \in 1 .. Len(res.ret) : res.ret[i] # <<>>
       /\ PathComponents(SLASH \o res.arg) = res.ret
       /\ res.arg = <<>> => res.ret = <<>>

----------------------------------------------------------------------------
(* The command-line tool: main() and its subcommands.                       *)

EX_SUCCESS == 0

EX_USAGE == 64

EX_DATAERR == 65

\* log.Fatal exits with 1, an uncaught panic with 2.
EX_FATAL == 1

EX_PANIC == 2

userDefault == "admin"

NotGiven(default) == [given |-> FALSE, v |-> default]

Given(v) == [given |-> TRUE, v |-> v]

HelpFlag == <<"-", "h">>

Running == [exited |-> FALSE, code |-> 0]

Exited(code) == [exited |-> TRUE, code |-> code]

\* applyDotfile: a missing dotfile changes nothing; one that cannot be read
\* or parsed is an error; otherwise a flag variable that still holds its
\* default takes the dotfile's value.
ApplyDotfile(fl, dotfile) ==
    IF dotfile.state = "absent" THEN [fl |-> fl, err |-> NilErr]
    ELSE IF dotfile.state = "unreadable" THEN [fl |-> fl, err |-> Err("dotfile read", NoText)]
    ELSE IF dotfile.state = "unparsable" THEN [fl |-> fl, err |-> Err("dotfile parse", NoText)]
    ELSE [fl |-> [flAddr |-> IF fl.flAddr = <<>> THEN dotfile.Addr ELSE fl.flAddr,
                  flUser |-> IF fl.flUser = userDefault THEN dotfile.User ELSE fl.flUser,
                  flPass |-> IF fl.flPass = "" THEN dotfile.Pass ELSE fl.flPass],
          err |-> NilErr]

RECURSIVE ReadPassword(_)
\* readPassword: the first line of stdin that is not empty; an error at the
\* end of the input.
ReadPassword(stdin) ==
    IF stdin = <<>> THEN [pass |-> "", err |-> Err("password", NoText)]
    ELSE IF Head(stdin) = "" THEN ReadPassword(Tail(stdin))
    ELSE [pass |-> Head(stdin), err |-> NilErr]

\* flag.Parse() over the general flags: a flag not given keeps its default.
ParsedFlags(in) == [flAddr |-> in.addr.v, flUser |-> in.user.v, flPass |-> in.pass.v]

\* main() up to the call of tt.Login: the flag variables it ends with, and
\* the exit status if it ends there.
MainBeforeLogin(in) ==
    LET d == ApplyDotfile(ParsedFlags(in), in.dotfile)
        pw == ReadPassword(in.stdin)
        fl == IF d.fl.flPass = "" THEN [d.fl EXCEPT !.flPass = pw.pass] ELSE d.fl
    IN  IF d.err # NilErr THEN [fl |-> d.fl, exit |-> Exited(EX_FATAL)]
        ELSE IF in.cmd = "" THEN [fl |-> d.fl, exit |-> Exited(EX_USAGE)]
        ELSE IF ~HasPrefix(d.fl.flAddr, HTTP) THEN [fl |-> d.fl, exit |-> Exited(EX_USAGE)]
        ELSE IF d.fl.flPass = "" /\ pw.err # NilErr THEN [fl |-> d.fl, exit |-> Exited(EX_FATAL)]
        ELSE IF in.cmd \notin {"ln", "ls"} THEN [fl |-> fl, exit |-> Exited(EX_USAGE)]
        ELSE [fl |-> fl, exit |-> Running]

\* What one library call adds to the history of the process.
Done(op, ok, sent) == [op |-> op, ok |-> ok, sent |-> sent]

\* Ls.Run up to ResolveCatPath: the catpath it resolves.
LsCatPath(args) == IF Len(args) > 0 THEN args[1] ELSE SLASH

\* Ln.Run: ln.flags.Arg(i) is "" when there is no such argument.
Arg(args, i) == IF i + 1 <= Len(args) THEN args[i + 1] ELSE <<>>

----------------------------------------------------------------------------
(* The inputs of one invocation of the tool.                                *)

MainAddrs == {NotGiven(<<>>), Given(HOST_URL), Given(HTTP), Given(<<"f", "t", "p">>)}

MainUsers == {NotGiven(userDefault), Given(userDefault), Given("bob")}

MainPasses == {NotGiven(""), Given("pw")}

Dotfiles ==
    {[state |-> st, Addr |-> <<>>, User |-> "", Pass |-> ""] :
        st \in {"absent", "unreadable", "unparsable"}}
    \cup {[state |-> "ok", Addr |-> a, User |-> u, Pass |-> p] :
            a \in {<<>>, HOST_URL \o SLASH}, u \in {"", "carol"}, p \in {"", "dpw"}}

Stdins == {<<>>, <<"", "typed">>}

FeedWord == <<"f">>

CommandLines ==
    {[cmd |-> "", args |-> <<>>], [cmd |-> "rm", args |-> <<>>]}
    \cup {[cmd |-> "ls", args |-> a] : a \in {<<>>, <<HelpFlag>>, <<<<"A">>>>, <<<<"A", "/", "x">>>>}}
    \cup {[cmd |-> "ln", args |-> a] :
            a \in {<<>>, <<HelpFlag>>, <<FeedWord>>, <<FeedWord, <<"A">>>>,
                   <<FeedWord, <<"A", "/", "x">>>>}}

Invocations ==
    {[addr |-> a, user |-> u, pass |-> p, dotfile |-> d, stdin |-> i,
      cmd |-> c.cmd, args |-> c.args] :
        a \in MainAddrs, u \in MainUsers, p \in MainPasses, d \in Dotfiles,
        i \in Stdins, c \in CommandLines}

MainLoginReplies ==
    Failures
    \cup {Envelope(API_STATUS_ERR, Content(JStr("boom"), JAbsent, JAbsent, JAbsent)),
          Envelope(API_STATUS_OK, Content(JAbsent, JAbsent, JAbsent, JAbsent)),
          Envelope(API_STATUS_OK, Content(JAbsent, JNum(2), JAbsent, JAbsent)),
          Envelope(API_STATUS_OK, Content(JAbsent, JStr("s1"), JAbsent, JAbsent))}

MainTrees ==
    {FeedTreeItem(type, <<>>, 0, items) :
        type \in {Category, Feed},
        items \in {<<>>, <<CatA, FeedA>>, <<FeedA, CatA>>,
                   <<FeedTreeItem(Category, <<"A">>, -3, <<>>)>>,
                   <<FeedTreeItem(Category, <<"A">>, 3,
                                  <<FeedTreeItem(Category, <<"x">>, -3, <<>>)>>)>>}}

MainTreeReplies ==
    {NetErr, Envelope(API_STATUS_ERR, Content(JStr("boom"), JAbsent, JAbsent, JAbsent))}
    \cup {Envelope(API_STATUS_OK, Content(JAbsent, JAbsent, JAbsent, JTree(t))) : t \in MainTrees}

MainSubscribeReplies ==
    {NetErr}
    \cup {Envelope(API_STATUS_OK, Content(JAbsent, JAbsent, JObj(JNum(2 * c), JAbsent), JAbsent)) :
            c \in {SUB_ALREADY_ADDED, SUB_ADDED, SUB_GET_FAILED}}

----------------------------------------------------------------------------
(* The subcommands.                                                         *)

ResolveRes(client, catpath, reply, r) ==
    [op |-> "ResolveCatPath", arg |-> catpath, reply |-> reply, before |-> client,
     sent |-> r.sent, ret |-> r.ret, panicked |-> r.panicked]

\* Ls.Run: -h prints the usage and returns; otherwise the catpath is
\* resolved, an error is fatal, and the item's children are printed.
LsRun(client, args, reply) ==
    LET catpath == LsCatPath(args)
        r == ResolveCatPath(client, catpath, reply)
    IN  IF Len(args) > 0 /\ args[1] = HelpFlag
        THEN [done |-> <<>>, res |-> NoRes, exit |-> Exited(EX_SUCCESS)]
        ELSE [done |-> <<Done("ResolveCatPath", ~r.panicked /\ r.ret.err = NilErr, r.sent)>>,
              res |-> ResolveRes(client, catpath, reply, r),
              exit |-> IF r.panicked THEN Exited(EX_PANIC)
                       ELSE IF r.ret.err # NilErr THEN Exited(EX_FATAL)
                       ELSE Exited(EX_SUCCESS)]

\* Ln.Run once the catpath resolved to a category: tt.Subscribe under the
\* item's ID, and the exit status it decides.
LnSubscribed(client, a, subscribeReply, resolved, sub) ==
    [done |-> <<resolved, Done("Subscribe", sub.ret.didSubscribe, sub.sent)>>,
     res |-> [op |-> "Subscribe", arg |-> a, reply |-> subscribeReply,
              before |-> client, sent |-> sub.sent, ret |-> sub.ret, panicked |-> FALSE],
     exit |-> IF sub.ret.didSubscribe THEN Exited(EX_SUCCESS) ELSE Exited(EX_DATAERR)]

\* A variant of LnResolved that does not look at the error ResolveCatPath
\* returned.
LnResolvedIgnoresErr(client, feed, catpath, reply, subscribeReply, r) ==
    IF r.panicked \/ r.ret.item.Type # Category
    THEN [done |-> <<Done("ResolveCatPath", FALSE, r.sent)>>,
          res |-> ResolveRes(client, catpath, reply, r),
          exit |-> IF r.panicked THEN Exited(EX_PANIC) ELSE Exited(EX_FATAL)]
    ELSE LnSubscribed(client,
                      [feedURL |-> feed, categoryID |-> r.ret.item.ID,
                       feedUsername |-> "", feedPassword |-> ""],
                      subscribeReply,
                      Done("ResolveCatPath", TRUE, r.sent),
                      Subscribe(client, feed, r.ret.item.ID, "", "", subscribeReply))

\* Ln.Run from what ResolveCatPath gave: an error or an item that is no
\* category is fatal.
LnResolved(client, feed, catpath, reply, subscribeReply, r) ==
    IF r.panicked \/ r.ret.err # NilErr \/ r.ret.item.Type # Category
    THEN [done |-> <<Done("ResolveCatPath", FALSE, r.sent)>>,
          res |-> ResolveRes(client, catpath, reply, r),
          exit |-> IF r.panicked THEN Exited(EX_PANIC) ELSE Exited(EX_FATAL)]
    ELSE LnSubscribed(client,
                      [feedURL |-> feed, categoryID |-> r.ret.item.ID,
                       feedUsername |-> "", feedPassword |-> ""],
                      subscribeReply,
                      Done("ResolveCatPath", TRUE, r.sent),
                      Subscribe(client, feed, r.ret.item.ID, "", "", subscribeReply))

\* Ln.Run: -h and a missing feed argument end it; otherwise the catpath is
\* resolved and the feed subscribed under the category found.
LnRun(client, args, reply, subscribeReply) ==
    IF Len(args) > 0 /\ args[1] = HelpFlag
    THEN [done |-> <<>>, res |-> NoRes, exit |-> Exited(EX_SUCCESS)]
    ELSE IF Len(args) < 1
    THEN [done |-> <<>>, res |-> NoRes, exit |-> Exited(EX_USAGE)]
    ELSE LnResolved(client, Arg(args, 0), Arg(args, 1), reply, subscribeReply,
                    ResolveCatPath(client, Arg(args, 1), reply))

----------------------------------------------------------------------------
(* One invocation of the tool.                                              *)

InitMain ==
    /\ tt = ZeroClient
    /\ res = NoRes
    /\ pc = "start"
    /\ proc \in {[in |-> i, fl |-> ParsedFlags(i), exit |-> Running] : i \in Invocations}
    /\ hist = <<>>

\* main() from flag.Parse() to the lookup of the subcommand.
MainStart ==
    /\ pc = "start"
    /\ LET m == MainBeforeLogin(proc.in) IN
          /\ proc' = [proc EXCEPT !.fl = m.fl, !.exit = m.exit]
          /\ pc' = IF m.exit.exited THEN "exited" ELSE "login"
    /\ UNCHANGED <<tt, res, hist>>

\* main() calls tt.Login and drops what it returns.
MainLogin ==
    /\ pc = "login"
    /\ \E reply \in Answers([tt EXCEPT !.ApiEP = ApiEndpoint(proc.fl.flAddr)],
                             MainLoginReplies) :
          LET conn == ConnInfo(proc.fl.flAddr, proc.fl.flUser, proc.fl.flPass)
              r == Login(tt, conn, reply)
          IN  /\ tt' = r.tt
              /\ res' = [op |-> "Login", arg |-> conn, reply |-> reply, before |-> tt,
                         sent |-> r.sent, ret |-> r.ret, panicked |-> r.panicked]
              /\ hist' = Append(hist, Done("Login", r.ret.ok, r.sent))
              /\ pc' = IF r.panicked THEN "exited" ELSE "run"
              /\ proc' = IF r.panicked THEN [proc EXCEPT !.exit = Exited(EX_PANIC)] ELSE proc

\* main() runs ls.
RunLs ==
    /\ pc = "run"
    /\ proc.in.cmd = "ls"
    /\ \E reply \in Answers(tt, MainTreeReplies) :
          LET r == LsRun(tt, proc.in.args, reply) IN
          /\ res' = r.res
          /\ hist' = hist \o r.done
          /\ proc' = [proc EXCEPT !.exit = r.exit]
    /\ pc' = "exited"
    /\ UNCHANGED tt

\* main() runs ln.
RunLn ==
    /\ pc = "run"
    /\ proc.in.cmd = "ln"
    /\ \E reply \in Answers(tt, MainTreeReplies),
          subscribeReply \in Answers(tt, MainSubscribeReplies) :
          LET r == LnRun(tt, proc.in.args, reply, subscribeReply) IN
          /\ res' = r.res
          /\ hist' = hist \o r.done
          /\ proc' = [proc EXCEPT !.exit = r.exit]
    /\ pc' = "exited"
    /\ UNCHANGED tt

NextMain == MainStart \/ MainLogin \/ RunLs \/ RunLn

SpecMain == InitMain /\ [][NextMain]_vars

\* C9 (as claimed): a failed login is fatal: the subcommand's operations
\* run, and their requests are sent, only after a Login of this invocation
\* that succeeded.
C9_FailedLoginIsFatal ==
    \A i \in 1 .. Len(hist) :
        hist[i].op # "Login"
        => \E j \in 1 .. i - 1 : hist[j].op = "Login" /\ hist[j].ok

\* C19 (as claimed): with a dotfile present, a connection setting given as
\* a flag is the one Login is called with, whatever its value.
C19_FlagsWinOverDotfile ==
    (res.op = "Login" /\ proc.in.dotfile.state = "ok")
    => /\ proc.in.addr.given => res.arg.HostURL = proc.in.addr.v
       /\ proc.in.user.given => res.arg.User = proc.in.user.v
       /\ proc.in.pass.given => res.arg.Password = proc.in.pass.v

\* C20: ln sends no subscribeToFeed request whose category_id is negative,
\* and when its catpath resolved to an item with a negative ID it ends
\* fatally without having called Subscribe.
C20_NoSubscribeUnderPseudoCategory ==
    /\ \A i \in 1 .. Len(hist) : \A k \in 1 .. Len(hist[i].sent) :
          hist[i].sent[k].op = "subscribeToFeed"
          => hist[i].sent[k].body.category_id >= 0
    /\ (/\ pc = "exited"
        /\ proc.in.cmd = "ln"
        /\ res.op = "ResolveCatPath"
        /\ ~res.panicked
        /\ res.ret.item # NoItem
        /\ res.ret.item.ID < 0)
       => /\ proc.exit = Exited(EX_FATAL)
          /\ \A i \in 1 .. Len(hist) : hist[i].op # "Subscribe"

\* ln ended fatally after its catpath had resolved to a category whose ID
\* is negative.
C20_Witness ==
    /\ pc = "exited"
    /\ proc.in.cmd = "ln"
    /\ res.op = "ResolveCatPath"
    /\ ~res.panicked
    /\ res.ret.item.Type = Category
    /\ res.ret.item.ID < 0
    /\ proc.exit = Exited(EX_FATAL)

====
